---- MODULE Spec2Model ----
(***************************************************************************)
(* GReNMlin network editor (src/gui.py): the network view's node map and   *)
(* edge list, the GRN model behind it (species, input species, genes),     *)
(* the editing-mode machine of NetworkView, the parameter panel and the    *)
(* save/load codec of MainWindow.                                          *)
(*                                                                         *)
(* Numbers: Kd, n and alpha are kept in the units of the source; delta is  *)
(* kept in tenths (0.1 is 1).  uuid4 strings are modelled as integers: a   *)
(* fresh uuid is an integer no live object or stored document holds.       *)
(***************************************************************************)
EXTENDS Integers, Sequences, FiniteSets, TLC

(***************************************************************************)
(* Bounds of the model.                                                    *)
(***************************************************************************)
MaxId == 6          \* uuids are drawn from 1..MaxId
MaxNodes == 3       \* entries of NetworkView.nodes
MaxEdges == 2       \* entries of NetworkView.edges
MaxGenes == 2       \* entries of GRN.genes
MaxDrift == 1       \* how many radii a saved position may lie below a click
PairNodes == 2      \* nodes of the two-node session
PairEdges == 3      \* edges of the two-node session
PairGenes == 3      \* genes of the two-node session
FileNodes == 2      \* nodes of the save/load session
FileEdges == 1      \* edges of the save/load session
PanelNodes == 1     \* nodes of the species-panel session
LoopEdges == 3      \* edges of the session on the self-loop document
LegacyNodes == 2    \* nodes of the session on the legacy document
LegacyEdges == 1    \* edges of the session on the legacy document
ModeNodes == 2      \* nodes of the session on the editing modes
ModeEdges == 1      \* edges of the session on the editing modes
MaxText == 1        \* characters typed into the display name field
DupNodes == 2       \* nodes of the session on repeated edges
DupEdges == 2       \* edges of the session on repeated edges
EditNodes == 2      \* nodes of the session on edge parameters
EditEdges == 2      \* edges of the session on edge parameters
PanelledNodes == 2  \* nodes of the session on node parameters
PanelledEdges == 1  \* edges of the session on node parameters
RetypeNodes == 2    \* nodes of the session on retyping
RetypeEdges == 1    \* edges of the session on retyping
SaveNodes == 2      \* nodes of the session on unsaved changes
SaveEdges == 2      \* edges of the session on unsaved changes
DragNodes == 2      \* nodes of the session on the pending edge
DragEdges == 1      \* edges of the session on the pending edge

(***************************************************************************)
(* Program constants.                                                      *)
(***************************************************************************)
Radius == 20        \* NetworkNode.__init__ radius=20
DefaultAlpha == 10  \* NetworkNode.__init__ alpha=10.0
DefaultKd == 5      \* NetworkEdge.__init__ kd=5.0
DefaultN == 2       \* NetworkEdge.__init__ n=2.0
DefaultDelta == 1   \* species.get("delta", 0.1), in tenths

NoNode == 0         \* Python None where a node object is expected
NoAlpha == -1       \* Python None where an alpha is expected
NoName == ""        \* Python None (or "") where a string is expected

Ids == 1..MaxId
Names == {"A", "B", "C"}
Logics == {"and", "or"}
EdgeTypes == {"ACTIVATION", "INHIBITION"}
UserPath == "user.grn"

VARIABLES
    nodes,               \* NetworkView.nodes: the dict's keys in insertion
                         \* order; key k maps to the object built with uuid k
    heap,                \* the NetworkNode objects in memory, by the uuid
                         \* their constructor drew
    edges,               \* NetworkView.edges: list of NetworkEdge
    species,             \* GRN.species: list of {name, delta?}
    input_species_names, \* GRN.input_species_names: list of names
    genes,               \* GRN.genes: list of gene dicts
    mode,                \* NetworkView._mode
    source_node,         \* NetworkView.source_node (a node object or None)
    temp_line,           \* NetworkView.temp_line is not None
    edge_type,           \* NetworkView.edge_type
    node_name_to_add,    \* NetworkView.node_name_to_add
    node_logic_to_add,   \* NetworkView.node_logic_to_add
    node_alpha_to_add,   \* NetworkView.node_alpha_to_add
    node_display_name,   \* NetworkView.node_display_name
    species_combo,       \* ParameterPanel.species_combo items
    files,               \* the documents on disk: path -> contents
    current_file,        \* MainWindow.current_file
    modified,            \* MainWindow.modified
    error,               \* the exception that ended the last handler
    last_op,             \* the handler that ran last
    last_deleted         \* the node object delete_node removed last

viewVars == <<nodes, heap, edges>>
grnVars == <<species, input_species_names, genes>>
modeVars == <<mode, source_node, temp_line, edge_type>>
pendingVars == <<node_name_to_add, node_logic_to_add, node_alpha_to_add,
                 node_display_name>>
windowVars == <<files, current_file, modified>>
vars == <<nodes, heap, edges, species, input_species_names, genes, mode,
          source_node, temp_line, edge_type, node_name_to_add,
          node_logic_to_add, node_alpha_to_add, node_display_name,
          species_combo, files, current_file, modified, error, last_op,
          last_deleted>>

(***************************************************************************)
(* Sequence helpers (Python list operations).                              *)
(***************************************************************************)
Range(s) == {s[i] : i \in DOMAIN s}

\* list.remove(x): drops the first element equal to x
RECURSIVE RemoveFirst(_, _)
RemoveFirst(s, x) ==
    IF s = <<>> THEN <<>>
    ELSE IF Head(s) = x THEN Tail(s)
    ELSE <<Head(s)>> \o RemoveFirst(Tail(s), x)

\* del s[i]
RemoveAt(s, i) == [j \in 1..(Len(s) - 1) |-> IF j < i THEN s[j] ELSE s[j + 1]]

(***************************************************************************)
(* class GRN (module grn, not part of the sources at hand): modelled from  *)
(* the data model of the specification.  A species is {name, delta?}, an   *)
(* input species carries no delta; species_names are the names of the      *)
(* species list; add_gene keeps one gene per (regulator, product) pair.    *)
(***************************************************************************)
GRN == [species |-> <<>>, input_species_names |-> <<>>, genes |-> <<>>]

species_names(sp) == [i \in DOMAIN sp |-> sp[i].name]

add_species(sp, name, delta) == Append(sp, [name |-> name, delta |-> delta])

add_input_species(g, name) ==
    [g EXCEPT !.species = Append(@, [name |-> name]),
              !.input_species_names = Append(@, name)]

HasGeneFor(gs, regulator_name, product_name) ==
    \E i \in DOMAIN gs :
        /\ gs[i].products[1].name = product_name
        /\ \E j \in DOMAIN gs[i].regulators :
               gs[i].regulators[j].name = regulator_name

add_gene(gs, alpha, regulators, products, logic_type) ==
    IF HasGeneFor(gs, regulators[1].name, products[1].name)
    THEN gs
    ELSE Append(gs, [alpha |-> alpha, regulators |-> regulators,
                     products |-> products, logic_type |-> logic_type])

(***************************************************************************)
(* enum EdgeType and its JSON encoding.                                    *)
(***************************************************************************)
EdgeTypeValue(t) == IF t = "ACTIVATION" THEN 1 ELSE -1

\* EdgeType(v): ValueError unless v is 1 or -1
IsEdgeTypeValue(v) == v \in {1, -1}
EdgeTypeOf(v) == IF v = 1 THEN "ACTIVATION" ELSE "INHIBITION"

(***************************************************************************)
(* NetworkNode and NetworkEdge objects.                                    *)
(***************************************************************************)
\* NetworkNode.__init__: the node is placed at (x - radius, y - radius)
NetworkNode(uuid, species_name, x, y, logic_type, alpha, display_name) ==
    [node_id |-> uuid,
     species_name |-> species_name,
     logic_type |-> logic_type,
     alpha |-> alpha,
     display_name |-> IF display_name = NoName THEN species_name
                      ELSE display_name,
     x |-> x - Radius,
     y |-> y - Radius]

NetworkEdge(source, target, type, kd, n) ==
    [source_node |-> source, target_node |-> target, edge_type |-> type,
     kd |-> kd, n |-> n]

InMap(k) == k \in Range(nodes)

\* NetworkNode.is_input
is_input(node, inputs) == node.species_name \in Range(inputs)

Touches(e, k) == e.source_node = k \/ e.target_node = k

\* the objects something still refers to
Referenced(nds, eds, src, kept) ==
    Range(nds) \cup {eds[i].source_node : i \in DOMAIN eds}
               \cup {eds[i].target_node : i \in DOMAIN eds}
               \cup ({src, kept} \ {NoNode})

Collect(h, nds, eds, src, kept) ==
    [k \in (DOMAIN h) \cap Referenced(nds, eds, src, kept) |-> h[k]]

(***************************************************************************)
(* uuid.uuid4(): an id nothing in memory or on disk holds.                 *)
(***************************************************************************)
DocNodeIds(doc) ==
    {doc.nodes[i].node_id :
        i \in {j \in DOMAIN doc.nodes : "node_id" \in DOMAIN doc.nodes[j]}}
    \cup {doc.edges[i].source_id :
        i \in {j \in DOMAIN doc.edges : "source_id" \in DOMAIN doc.edges[j]}}
    \cup {doc.edges[i].target_id :
        i \in {j \in DOMAIN doc.edges : "target_id" \in DOMAIN doc.edges[j]}}

StoredIds(fs) ==
    UNION {DocNodeIds(fs[p].data) :
              p \in {q \in DOMAIN fs : fs[q].parses}}

UsedIds(h, fs) ==
    (DOMAIN h) \cup {h[k].node_id : k \in DOMAIN h} \cup StoredIds(fs)

HasFresh(used) == (Ids \ used) # {}
uuid4(used) == CHOOSE i \in Ids \ used : \A j \in Ids \ used : i <= j

(***************************************************************************)
(* NetworkView.delete_node, the part that updates the GRN (lines 1039 to   *)
(* 1062).                                                                  *)
(***************************************************************************)
\* the loop without its "if not gene['regulators']: remove" branch
StripRegulatorKeepsGene(gs, i, name) ==
    LET Other(r) == r["name"] # name
    IN [j \in DOMAIN gs |->
           [gs[j] EXCEPT !.regulators = SelectSeq(@, Other)]]

\* for gene in self.grn.genes: ... self.grn.genes.remove(gene)
\* The list is changed while it is iterated: the iterator moves on by index.
RECURSIVE StripRegulator(_, _, _)
StripRegulator(gs, i, name) ==
    IF i > Len(gs) THEN gs
    ELSE LET Other(r) == r["name"] # name
             g == [gs[i] EXCEPT !.regulators = SelectSeq(@, Other)]
             gs1 == [gs EXCEPT ![i] = g]
         IN IF g.regulators = <<>>
            THEN StripRegulator(RemoveFirst(gs1, g), i + 1, name)
            ELSE StripRegulator(gs1, i + 1, name)

delete_node_genes(gs, name) ==
    LET NoProduct(g) ==
            ~ \E j \in DOMAIN g.products : g.products[j].name = name
    IN StripRegulator(SelectSeq(gs, NoProduct), 1, name)

delete_node_species(sp, name) ==
    LET Other(s) == s["name"] # name IN SelectSeq(sp, Other)

delete_node_inputs(inputs, name) ==
    IF name \in Range(inputs) THEN RemoveFirst(inputs, name) ELSE inputs

delete_node_edges(eds, k) ==
    LET Apart(e) == ~ Touches(e, k) IN SelectSeq(eds, Apart)

(***************************************************************************)
(* NetworkEdge.delete_edge, the part that updates the GRN (lines 626 to    *)
(* 628).                                                                   *)
(***************************************************************************)
delete_edge_genes(gs, source_species, target_species) ==
    LET Kept(g) ==
            ~ ( /\ \E j \in DOMAIN g.regulators :
                       g.regulators[j].name = source_species
                /\ \E j \in DOMAIN g.products :
                       g.products[j].name = target_species )
    IN SelectSeq(gs, Kept)

(***************************************************************************)
(* MainWindow.save_network: the document written (lines 2267 to 2318).     *)
(***************************************************************************)
SavedNode(n) ==
    [node_id |-> n.node_id, species_name |-> n.species_name,
     display_name |-> n.display_name, x |-> n.x, y |-> n.y,
     logic_type |-> n.logic_type, alpha |-> n.alpha]

\* species_data: one entry per species a node names, in the order the nodes
\* first name it, taken from the species list when it is there
RECURSIVE SavedSpecies(_, _, _, _)
SavedSpecies(nds, h, sp, seen) ==
    IF nds = <<>> THEN <<>>
    ELSE LET name == h[Head(nds)].species_name
             found == {i \in DOMAIN sp : sp[i].name = name}
             first == CHOOSE i \in found : \A j \in found : i <= j
         IN IF name \in seen \/ found = {}
            THEN SavedSpecies(Tail(nds), h, sp, seen)
            ELSE <<sp[first]>>
                 \o SavedSpecies(Tail(nds), h, sp, seen \cup {name})

SavedEdge(e, h) ==
    [source_id |-> h[e.source_node].node_id,
     target_id |-> h[e.target_node].node_id,
     source_species |-> h[e.source_node].species_name,
     target_species |-> h[e.target_node].species_name,
     type |-> EdgeTypeValue(e.edge_type), kd |-> e.kd, n |-> e.n]

network_data(nds, h, eds, sp, inputs, gs) ==
    LET valid_node_ids == {h[nds[i]].node_id : i \in DOMAIN nds}
        Valid(e) == /\ h[e.source_node].node_id \in valid_node_ids
                    /\ h[e.target_node].node_id \in valid_node_ids
        kept == SelectSeq(eds, Valid)
    IN [nodes |-> [i \in DOMAIN nds |-> SavedNode(h[nds[i]])],
        edges |-> [i \in DOMAIN kept |-> SavedEdge(kept[i], h)],
        grn |-> [species |-> SavedSpecies(nds, h, sp, {}),
                 input_species_names |-> inputs,
                 genes |-> gs]]

NoFile == [exists |-> FALSE, parses |-> FALSE]
Malformed == [exists |-> TRUE, parses |-> FALSE]
Written(doc) == [exists |-> TRUE, parses |-> TRUE, data |-> doc]

(***************************************************************************)
(* MainWindow.load_network: rebuilding the network from a parsed document  *)
(* (lines 2357 to 2402).  Each step works on the record                    *)
(*   [ok, short, species, input_species_names, genes, nodes, heap, edges,  *)
(*    node_map, seen_edges, emitted]                                       *)
(* where ok is FALSE once a KeyError or ValueError was raised, short is    *)
(* TRUE when the model has no uuid left, and emitted tells whether         *)
(* add_node raised grn_modified.                                           *)
(***************************************************************************)
Get(d, key, default) == IF key \in DOMAIN d THEN d[key] ELSE default

\* lines 2359-2363
RECURSIVE RestoreSpecies(_, _, _)
RestoreSpecies(sps, doc_inputs, g) ==
    IF sps = <<>> THEN g
    ELSE LET s == Head(sps)
             g1 == IF s.name \in Range(doc_inputs)
                   THEN add_input_species(g, s.name)
                   ELSE [g EXCEPT !.species =
                            add_species(@, s.name,
                                        Get(s, "delta", DefaultDelta))]
         IN RestoreSpecies(Tail(sps), doc_inputs, g1)

\* lines 2367-2379
RECURSIVE RestoreNodes(_, _, _)
RestoreNodes(datas, st, fs) ==
    IF datas = <<>> \/ ~ st.ok \/ st.short THEN st
    ELSE LET d == Head(datas)
             used == UsedIds(st.heap, fs)
         IN IF ~ ({"species_name", "x", "y"} \subseteq DOMAIN d)
            THEN [st EXCEPT !.ok = FALSE]
            ELSE IF Cardinality(Ids \ used) < 2
            THEN [st EXCEPT !.short = TRUE]
            ELSE
              LET uuid == uuid4(used)
                  node_id == Get(d, "node_id", uuid4(used \cup {uuid}))
                  built == NetworkNode(uuid, d.species_name, d.x, d.y,
                                       Get(d, "logic_type", "and"),
                                       DefaultAlpha,
                                       Get(d, "display_name", NoName))
                  node == [built EXCEPT
                             !.alpha = Get(d, "alpha", DefaultAlpha),
                             !.node_id = node_id,
                             !.logic_type = Get(d, "logic_type", "and")]
                  st1 == [st EXCEPT
                            !.nodes = Append(@, uuid),
                            !.heap = [k \in DOMAIN @ \cup {uuid} |->
                                         IF k = uuid THEN node ELSE @[k]],
                            !.node_map =
                                [i \in DOMAIN @ \cup {node_id} |->
                                    IF i = node_id THEN uuid ELSE @[i]],
                            !.emitted = TRUE]
              IN RestoreNodes(Tail(datas), st1, fs)

\* the loop without its seen_edges test
RECURSIVE RestoreEdgesKeepsAll(_, _)
RestoreEdgesKeepsAll(datas, st) ==
    IF datas = <<>> \/ ~ st.ok THEN st
    ELSE LET d == Head(datas)
             Lookup(key) == IF key \in DOMAIN d
                            THEN IF d[key] \in DOMAIN st.node_map
                                 THEN st.node_map[d[key]] ELSE NoNode
                            ELSE NoNode
             source == Lookup("source_id")
             target == Lookup("target_id")
         IN IF source = NoNode \/ target = NoNode
            THEN RestoreEdgesKeepsAll(Tail(datas), st)
            ELSE IF ~ ("type" \in DOMAIN d)
            THEN [st EXCEPT !.ok = FALSE]
            ELSE IF ~ IsEdgeTypeValue(d.type)
            THEN [st EXCEPT !.ok = FALSE]
            ELSE RestoreEdgesKeepsAll(Tail(datas),
                   [st EXCEPT
                      !.edges = Append(@,
                          NetworkEdge(source, target,
                                      EdgeTypeOf(d.type),
                                      Get(d, "kd", DefaultKd),
                                      Get(d, "n", DefaultN)))])

\* lines 2382-2399
RECURSIVE RestoreEdges(_, _)
RestoreEdges(datas, st) ==
    IF datas = <<>> \/ ~ st.ok THEN st
    ELSE LET d == Head(datas)
             Lookup(key) == IF key \in DOMAIN d
                            THEN IF d[key] \in DOMAIN st.node_map
                                 THEN st.node_map[d[key]] ELSE NoNode
                            ELSE NoNode
             source == Lookup("source_id")
             target == Lookup("target_id")
         IN IF source = NoNode \/ target = NoNode
            THEN RestoreEdges(Tail(datas), st)
            ELSE LET edge_id == <<st.heap[source].node_id,
                                  st.heap[target].node_id>>
                 IN IF edge_id \in st.seen_edges
                    THEN RestoreEdges(Tail(datas), st)
                    ELSE IF ~ ("type" \in DOMAIN d)
                    THEN [st EXCEPT !.ok = FALSE]
                    ELSE IF ~ IsEdgeTypeValue(d.type)
                    THEN [st EXCEPT !.ok = FALSE]
                    ELSE RestoreEdges(Tail(datas),
                           [st EXCEPT
                              !.edges = Append(@,
                                  NetworkEdge(source, target,
                                              EdgeTypeOf(d.type),
                                              Get(d, "kd", DefaultKd),
                                              Get(d, "n", DefaultN))),
                              !.seen_edges = @ \cup {edge_id}])

\* lines 2355-2402, after json.load: clear(), then species, nodes, edges,
\* genes.  h0 holds the objects that outlive clear().
Restore(doc, h0, fs) ==
    LET g == RestoreSpecies(doc.grn.species, doc.grn.input_species_names,
                            GRN)
        st0 == [ok |-> TRUE, short |-> FALSE,
                species |-> g.species,
                input_species_names |-> g.input_species_names,
                genes |-> <<>>,
                nodes |-> <<>>, heap |-> h0, edges |-> <<>>,
                node_map |-> <<>>, seen_edges |-> {}, emitted |-> FALSE]
        st1 == RestoreNodes(doc.nodes, st0, fs)
        st2 == RestoreEdges(doc.edges, st1)
    IN IF st2.ok /\ ~ st2.short
       THEN [st2 EXCEPT !.genes = doc.grn.genes]
       ELSE st2

(***************************************************************************)
(* Signals and setters shared by the handlers.                             *)
(***************************************************************************)
\* an uncaught exception in a Qt slot ends the application, and so does
\* closing the window
Running == error \notin {"KeyError", "closed"}

\* grn_modified.emit(): MainWindow.on_network_modified and
\* MainWindow.update_species_list, with sp the species list at that moment
Emit(sp) ==
    /\ modified' = TRUE
    /\ species_combo' = Range(species_names(sp))

\* the mode setter with _handle_mode_change
SetMode(new_mode) ==
    /\ mode' = new_mode
    /\ IF mode # new_mode
       THEN source_node' = NoNode /\ temp_line' = FALSE
       ELSE UNCHANGED <<source_node, temp_line>>

Done(op) == error' = "none" /\ last_op' = op

(***************************************************************************)
(* MainWindow.add_species_dialog, accepted.                                *)
(***************************************************************************)
AddSpeciesDialog(names, deltas, kinds) ==
    /\ Running
    /\ \E name \in names :
         /\ name \notin Range(species_names(species))
         /\ \/ /\ "Output" \in kinds
               /\ \E delta \in deltas :
                    /\ species' = add_species(species, name, delta)
                    /\ UNCHANGED input_species_names
            \/ /\ "Input" \in kinds
               /\ LET g == add_input_species(
                            [species |-> species,
                             input_species_names |-> input_species_names],
                            name)
                  IN /\ species' = g.species
                     /\ input_species_names' = g.input_species_names
    /\ Emit(species')
    /\ Done("add_species_dialog")
    /\ UNCHANGED <<viewVars, genes, modeVars, pendingVars, files,
                   current_file, last_deleted>>

(***************************************************************************)
(* MainWindow.add_node_dialog with NetworkView.start_add_node.             *)
(***************************************************************************)
AddNodeDialog(logics, alphas, display_names) ==
    /\ Running
    /\ \/ \* the dialog is rejected, or there is no species yet: only the
          \* edge button was unchecked
          /\ mode = "ADDING_EDGE"
          /\ SetMode("NORMAL")
          /\ UNCHANGED pendingVars
       \/ /\ species # <<>>
          /\ \E name \in Range(species_names(species)), logic \in logics,
                alpha \in alphas, display_name \in display_names :
               /\ node_name_to_add' = name
               /\ node_logic_to_add' = logic
               /\ node_alpha_to_add' = alpha
               /\ node_display_name' = display_name
          /\ mode' = "ADDING_NODE"
          /\ IF mode # "ADDING_NODE"
             THEN source_node' = NoNode /\ temp_line' = FALSE
             ELSE UNCHANGED <<source_node, temp_line>>
    /\ heap' = Collect(heap, nodes, edges, source_node', last_deleted)
    /\ Done("add_node_dialog")
    /\ UNCHANGED <<nodes, edges, grnVars, edge_type, species_combo,
                   windowVars, last_deleted>>

(***************************************************************************)
(* NetworkView.mousePressEvent in ADDING_NODE mode, with add_node.         *)
(***************************************************************************)
PlaceNode(points) ==
    /\ Running
    /\ mode = "ADDING_NODE"
    /\ HasFresh(UsedIds(heap, files))
    /\ \E p \in points :
         LET uuid == uuid4(UsedIds(heap, files))
             node == NetworkNode(uuid, node_name_to_add, p[1], p[2],
                                 node_logic_to_add, DefaultAlpha,
                                 node_display_name)
         IN /\ nodes' = Append(nodes, uuid)
            /\ heap' = [k \in DOMAIN heap \cup {uuid} |->
                           IF k = uuid THEN node ELSE heap[k]]
    /\ Emit(species)
    /\ SetMode("NORMAL")
    /\ node_logic_to_add' = NoName
    /\ node_name_to_add' = NoName
    /\ node_alpha_to_add' = NoAlpha
    /\ node_display_name' = NoName
    /\ Done("add_node")
    /\ UNCHANGED <<edges, grnVars, edge_type, files, current_file,
                   last_deleted>>

(***************************************************************************)
(* Toolbar: MainWindow.toggle_edge_mode and edge_type_changed.             *)
(***************************************************************************)
ToggleEdgeMode ==
    /\ Running
    /\ SetMode(IF mode = "ADDING_EDGE" THEN "NORMAL" ELSE "ADDING_EDGE")
    /\ heap' = Collect(heap, nodes, edges, source_node', last_deleted)
    /\ Done("set_edge_mode")
    /\ UNCHANGED <<nodes, edges, grnVars, edge_type, pendingVars,
                   species_combo, windowVars, last_deleted>>

EdgeTypeChanged(types) ==
    /\ Running
    /\ \E t \in types : t # edge_type /\ edge_type' = t
    /\ Done("edge_type_changed")
    /\ UNCHANGED <<viewVars, grnVars, mode, source_node, temp_line,
                   pendingVars, species_combo, windowVars, last_deleted>>

(***************************************************************************)
(* NetworkView.keyPressEvent, Escape.                                      *)
(***************************************************************************)
Escape ==
    /\ Running
    /\ mode # "NORMAL" \/ node_name_to_add # NoName
    /\ SetMode("NORMAL")
    /\ node_logic_to_add' = NoName
    /\ node_name_to_add' = NoName
    /\ node_alpha_to_add' = NoAlpha
    /\ heap' = Collect(heap, nodes, edges, source_node', last_deleted)
    /\ Done("keyPressEvent")
    /\ UNCHANGED <<nodes, edges, grnVars, edge_type, node_display_name,
                   species_combo, windowVars, last_deleted>>

(***************************************************************************)
(* NetworkNode.mousePressEvent in ADDING_EDGE mode: NetworkView.node_clicked *)
(***************************************************************************)
NodeClicked ==
    /\ Running
    /\ mode = "ADDING_EDGE"
    /\ source_node = NoNode
    /\ \E k \in Range(nodes) : source_node' = k
    /\ temp_line' = TRUE
    /\ Done("node_clicked")
    /\ UNCHANGED <<viewVars, grnVars, mode, edge_type, pendingVars,
                   species_combo, windowVars, last_deleted>>

(***************************************************************************)
(* NetworkView.complete_edge                                               *)
(***************************************************************************)
complete_edge_genes(gs, source, target, type, edge) ==
    add_gene(gs, target.alpha,
             <<[name |-> source.species_name, type |-> EdgeTypeValue(type),
                Kd |-> edge.kd, n |-> edge.n]>>,
             <<[name |-> target.species_name]>>,
             target.logic_type)

complete_edge(target_node) ==
    LET edge == NetworkEdge(source_node, target_node, edge_type,
                            DefaultKd, DefaultN)
    IN /\ source_node # NoNode /\ source_node # target_node
       /\ edges' = Append(edges, edge)
       /\ genes' = complete_edge_genes(genes, heap[source_node],
                                       heap[target_node], edge_type, edge)
       /\ SetMode("NORMAL")
       /\ Emit(species)

(***************************************************************************)
(* NetworkView.mouseReleaseEvent with a pending source node.               *)
(***************************************************************************)
MouseRelease ==
    /\ Running
    /\ source_node # NoNode
    /\ \/ /\ \E t \in Range(nodes) \ {source_node} : complete_edge(t)
          /\ Done("complete_edge")
          /\ UNCHANGED <<files, current_file>>
       \/ /\ source_node' = NoNode
          /\ temp_line' = FALSE
          /\ mode' = "ADDING_EDGE"
          /\ Done("mouseReleaseEvent")
          /\ UNCHANGED <<edges, genes, species_combo, windowVars>>
    /\ heap' = Collect(heap, nodes, edges', source_node', last_deleted)
    /\ UNCHANGED <<nodes, species, input_species_names, edge_type,
                   pendingVars, last_deleted>>

(***************************************************************************)
(* NetworkEdge.delete_edge, from the edge's context menu.                  *)
(***************************************************************************)
DeleteEdge ==
    /\ Running
    /\ \E i \in DOMAIN edges :
         /\ edges' = RemoveAt(edges, i)
         /\ genes' = delete_edge_genes(
                         genes, heap[edges[i].source_node].species_name,
                         heap[edges[i].target_node].species_name)
    /\ Emit(species)
    /\ heap' = Collect(heap, nodes, edges', source_node, last_deleted)
    /\ Done("delete_edge")
    /\ UNCHANGED <<nodes, species, input_species_names, modeVars,
                   pendingVars, files, current_file, last_deleted>>

(***************************************************************************)
(* NetworkEdge.edit_parameters, accepted, and                              *)
(* ParameterPanel.save_edge_parameters: the same statements on the edge    *)
(* and on the genes.                                                       *)
(***************************************************************************)
\* the regulator the inner loop stops at: the first one of the gene named
\* after the source species, when the first product is the target species
edited_regulator(gene, source_species, target_species) ==
    LET hits == {j \in DOMAIN gene.regulators :
                    /\ gene.regulators[j].name = source_species
                    /\ gene.products[1].name = target_species}
    IN IF hits = {} THEN 0
       ELSE CHOOSE j \in hits : \A h \in hits : j <= h

\* the loop without its test of the names
edit_regulators_all(gs, source_species, target_species, kd, n, type) ==
    [i \in DOMAIN gs |->
        [gs[i] EXCEPT !.regulators =
            [j \in DOMAIN @ |->
                [@[j] EXCEPT !.Kd = kd, !.n = n,
                             !.type = EdgeTypeValue(type)]]]]

edit_regulators(gs, source_species, target_species, kd, n, type) ==
    [i \in DOMAIN gs |->
        LET j == edited_regulator(gs[i], source_species, target_species)
        IN IF j = 0 THEN gs[i]
           ELSE [gs[i] EXCEPT !.regulators[j] =
                    [@ EXCEPT !.Kd = kd, !.n = n,
                              !.type = EdgeTypeValue(type)]]]

\* the gene lists the observers of grn_modified are shown, one for each
\* emission in the order of the loop: the emission for gene i comes when
\* the genes up to i are updated and the later ones are not
edit_emissions(gs, source_species, target_species, kd, n, type) ==
    LET new == edit_regulators(gs, source_species, target_species,
                               kd, n, type)
        Hit(i) == edited_regulator(gs[i], source_species, target_species)
                      # 0
        Seen(i) == [m \in DOMAIN gs |-> IF m <= i THEN new[m] ELSE gs[m]]
        RECURSIVE From(_)
        From(i) == IF i > Len(gs) THEN <<>>
                   ELSE IF Hit(i) THEN <<Seen(i)>> \o From(i + 1)
                   ELSE From(i + 1)
    IN From(1)

save_edge_parameters(i, kd, n, type) ==
    LET source_species == heap[edges[i].source_node].species_name
        target_species == heap[edges[i].target_node].species_name
    IN /\ edges' = [edges EXCEPT ![i].kd = kd, ![i].n = n,
                                 ![i].edge_type = type]
       /\ genes' = edit_regulators(genes, source_species, target_species,
                                   kd, n, type)
       /\ IF edit_emissions(genes, source_species, target_species,
                            kd, n, type) # <<>>
          THEN Emit(species)
          ELSE UNCHANGED <<modified, species_combo>>
       /\ Done("save_edge_parameters")
       /\ UNCHANGED <<nodes, heap, species, input_species_names, modeVars,
                      pendingVars, files, current_file, last_deleted>>

SaveEdgeParameters(kds, ns, types) ==
    /\ Running
    /\ \E i \in DOMAIN edges, kd \in kds, n \in ns, type \in types :
         save_edge_parameters(i, kd, n, type)

(***************************************************************************)
(* NetworkView.delete_node(node), confirmed with Yes.  keep tells whether  *)
(* the caller goes on holding the node object.                             *)
(***************************************************************************)
delete_node(k, keep) ==
    LET node == heap[k]
        name == node.species_name
    IN /\ edges' = delete_node_edges(edges, k)
       /\ IF node.node_id \in Range(nodes)
          THEN \* del self.nodes[node.node_id] finds the key
               /\ nodes' = RemoveFirst(nodes, node.node_id)
               /\ species' = delete_node_species(species, name)
               /\ input_species_names' =
                      delete_node_inputs(input_species_names, name)
               /\ genes' = delete_node_genes(genes, name)
               /\ Emit(species')
               /\ last_deleted' = IF keep THEN k ELSE last_deleted
               /\ error' = "none"
          ELSE \* KeyError at line 1037: nothing after it runs
               /\ error' = "KeyError"
               /\ UNCHANGED <<nodes, grnVars, species_combo, modified,
                              last_deleted>>
       /\ heap' = Collect(heap, nodes', edges', source_node, last_deleted')
       /\ last_op' = "delete_node"
       /\ UNCHANGED <<modeVars, pendingVars, files, current_file>>

DeleteNode(keep) ==
    /\ Running
    /\ \E k \in Range(nodes) : delete_node(k, keep)

\* a second call for the node object the last call removed
DeleteNodeAgain ==
    /\ Running
    /\ last_deleted # NoNode
    /\ ~ InMap(last_deleted)
    /\ delete_node(last_deleted, TRUE)

(***************************************************************************)
(* NetworkView.rename_node(node), accepted.  typed is what the display     *)
(* name field holds, one character per element.                            *)
(***************************************************************************)
\* str.strip()
RECURSIVE lstrip(_)
lstrip(chars) ==
    IF chars # <<>> /\ Head(chars) = " " THEN lstrip(Tail(chars)) ELSE chars

RECURSIVE rstrip(_)
rstrip(chars) ==
    IF chars # <<>> /\ chars[Len(chars)] = " "
    THEN rstrip(SubSeq(chars, 1, Len(chars) - 1))
    ELSE chars

strip(chars) == rstrip(lstrip(chars))

\* the string made of the characters
RECURSIVE Text(_)
Text(chars) == IF chars = <<>> THEN "" ELSE Head(chars) \o Text(Tail(chars))

new_display_name_kept_empty(node, typed) == Text(strip(typed))

\* lines 1001-1003
new_display_name(node, typed) ==
    IF strip(typed) = <<>> THEN node.species_name ELSE Text(strip(typed))

rename_node(k, typed) ==
    /\ heap' = [heap EXCEPT
                   ![k].display_name = new_display_name(heap[k], typed)]
    /\ Emit(species)
    /\ Done("rename_node")
    /\ UNCHANGED <<nodes, edges, grnVars, modeVars, pendingVars, files,
                   current_file, last_deleted>>

RenameNode(texts) ==
    /\ Running
    /\ \E k \in Range(nodes), typed \in texts : rename_node(k, typed)

(***************************************************************************)
(* NetworkView.toggle_node_type(node)                                      *)
(***************************************************************************)
SetDelta(sp, name, delta) ==
    LET found == {i \in DOMAIN sp : sp[i].name = name}
        first == CHOOSE i \in found : \A j \in found : i <= j
    IN IF found = {} THEN sp
       ELSE [sp EXCEPT ![first] = [name |-> name, delta |-> delta]]

DelDelta(sp, name, every) ==
    LET found == {i \in DOMAIN sp : sp[i].name = name}
        first == CHOOSE i \in found : \A j \in found : i <= j
    IN [i \in DOMAIN sp |->
           IF i \in found /\ (every \/ i = first)
           THEN [name |-> name] ELSE sp[i]]

ToggleNodeType(deltas) ==
    /\ Running
    /\ \E k \in Range(nodes) :
         LET name == heap[k].species_name
         IN IF is_input(heap[k], input_species_names)
            THEN \* the dialog is accepted with a delta, or rejected
                 \/ \E delta \in deltas :
                      /\ input_species_names' =
                             RemoveFirst(input_species_names, name)
                      /\ species' = SetDelta(species, name, delta)
                 \/ UNCHANGED <<species, input_species_names>>
            ELSE /\ input_species_names' = Append(input_species_names, name)
                 /\ species' = DelDelta(species, name, FALSE)
    /\ Emit(species')
    /\ Done("toggle_node_type")
    /\ UNCHANGED <<viewVars, genes, modeVars, pendingVars, files,
                   current_file, last_deleted>>

(***************************************************************************)
(* ParameterPanel.save_species_parameters                                  *)
(***************************************************************************)
SaveSpeciesParameters(deltas) ==
    /\ Running
    /\ \E species_name \in species_combo, will_be_input \in BOOLEAN,
          new_delta \in deltas :
         LET is_currently_input ==
                 species_name \in Range(input_species_names)
         IN IF is_currently_input # will_be_input
            THEN IF will_be_input
                 THEN /\ input_species_names' =
                             Append(input_species_names, species_name)
                      /\ species' = DelDelta(species, species_name, TRUE)
                 ELSE /\ input_species_names' =
                             RemoveFirst(input_species_names, species_name)
                      /\ species' = SetDelta(species, species_name,
                                             new_delta)
            ELSE IF ~ will_be_input
                 THEN /\ species' = SetDelta(species, species_name,
                                             new_delta)
                      /\ UNCHANGED input_species_names
                 ELSE UNCHANGED <<species, input_species_names>>
    /\ Emit(species')
    /\ Done("save_species_parameters")
    /\ UNCHANGED <<viewVars, genes, modeVars, pendingVars, files,
                   current_file, last_deleted>>

(***************************************************************************)
(* ParameterPanel.save_node_parameters for the selected node.              *)
(***************************************************************************)
Rename(gs, old, new) ==
    LET Ren(r) == IF r.name = old THEN [r EXCEPT !.name = new] ELSE r
    IN [i \in DOMAIN gs |->
           [gs[i] EXCEPT
              !.regulators = [j \in DOMAIN @ |-> Ren(@[j])],
              !.products = [j \in DOMAIN @ |-> Ren(@[j])]]]

SaveNodeParameters(display_names, alphas, logics) ==
    /\ Running
    /\ \E k \in Range(nodes), display_name \in display_names,
          alpha \in alphas, logic \in logics,
          new_species \in (IF species = <<>> THEN {NoName}
                           ELSE Range(species_names(species))) :
         LET old_species == heap[k].species_name
             used == \E i \in DOMAIN edges : Touches(edges[i], k)
         IN /\ heap' = [heap EXCEPT
                           ![k].species_name = new_species,
                           ![k].display_name = display_name,
                           ![k].alpha = alpha,
                           ![k].logic_type = logic]
            /\ genes' = IF old_species # new_species /\ used
                        THEN Rename(genes, old_species, new_species)
                        ELSE genes
    /\ Emit(species)
    /\ Done("save_node_parameters")
    /\ UNCHANGED <<nodes, edges, species, input_species_names, modeVars,
                   pendingVars, files, current_file, last_deleted>>

(***************************************************************************)
(* MainWindow.save_network                                                 *)
(***************************************************************************)
\* the paths the save dialog may return when it is shown
SaveTargets(save_as) ==
    IF current_file = NoName \/ save_as THEN {UserPath} ELSE {current_file}

save_network(path) ==
    [files EXCEPT ![path] =
        Written(network_data(nodes, heap, edges, species,
                             input_species_names, genes))]

SaveNetwork ==
    /\ Running
    /\ \E save_as \in BOOLEAN :
         \E path \in SaveTargets(save_as) :
           /\ current_file' = path
           /\ files' = save_network(path)
    /\ modified' = FALSE
    /\ Done("save_network")
    /\ UNCHANGED <<viewVars, grnVars, modeVars, pendingVars, species_combo,
                   last_deleted>>

(***************************************************************************)
(* MainWindow.maybe_save: what the question "save changes?" can lead to.   *)
(* proceed is the value returned; answer is the button pressed, "none"     *)
(* when nothing was asked, and "Save fails" when Save was pressed and      *)
(* save_network returned False: the file dialog was cancelled, or the file *)
(* could not be opened, or writing it broke off.                           *)
(***************************************************************************)
maybe_save(answers) ==
    IF ~ modified
    THEN {[proceed |-> TRUE, answer |-> "none", files |-> files,
           current_file |-> current_file, modified |-> modified]}
    ELSE {[proceed |-> TRUE, answer |-> "Discard", files |-> files,
           current_file |-> current_file, modified |-> modified] :
              answer \in answers \cap {"Discard"}}
         \cup
         \* Save, and save_network() returned True
         {[proceed |-> TRUE, answer |-> "Save",
           files |-> save_network(path), current_file |-> path,
           modified |-> FALSE] :
              path \in IF "Save" \in answers THEN SaveTargets(FALSE) ELSE {}}
         \cup
         {[proceed |-> FALSE, answer |-> "Cancel", files |-> files,
           current_file |-> current_file, modified |-> modified] :
              answer \in answers \cap {"Cancel"}}
         \cup
         \* Save, and save_network() returned False
         UNION {{[proceed |-> FALSE, answer |-> "Save fails",
                  files |-> fs, current_file |-> path,
                  modified |-> modified] :
                     fs \in {files, [files EXCEPT ![path] = Malformed]}} :
                   path \in IF "Save fails" \in answers
                            THEN SaveTargets(FALSE) ELSE {}}
         \cup
         {[proceed |-> FALSE, answer |-> "Save fails", files |-> files,
           current_file |-> current_file, modified |-> modified] :
              answer \in answers \cap {"Save fails"}}

(***************************************************************************)
(* MainWindow.new_network with NetworkView.clear                           *)
(***************************************************************************)
new_network(saved) ==
    /\ files' = saved.files
    /\ IF saved.proceed
       THEN /\ nodes' = <<>>
            /\ edges' = <<>>
            /\ species' = GRN.species
            /\ input_species_names' = GRN.input_species_names
            /\ genes' = GRN.genes
            /\ heap' = Collect(heap, nodes', edges', source_node,
                               last_deleted)
            /\ current_file' = NoName
            /\ modified' = FALSE
       ELSE /\ current_file' = saved.current_file
            /\ modified' = saved.modified
            /\ UNCHANGED <<viewVars, grnVars>>
    /\ Done("new_network")
    /\ UNCHANGED <<modeVars, pendingVars, species_combo, last_deleted>>

NewNetwork(answers) ==
    /\ Running
    /\ \E saved \in maybe_save(answers) : new_network(saved)

(***************************************************************************)
(* MainWindow.closeEvent                                                   *)
(***************************************************************************)
closeEvent(saved) ==
    /\ files' = saved.files
    /\ current_file' = saved.current_file
    /\ modified' = saved.modified
    /\ error' = IF saved.proceed THEN "closed" ELSE "none"
    /\ last_op' = "closeEvent"
    /\ UNCHANGED <<viewVars, grnVars, modeVars, pendingVars, species_combo,
                   last_deleted>>

CloseEvent(answers) ==
    /\ Running
    /\ \E saved \in maybe_save(answers) : closeEvent(saved)

(***************************************************************************)
(* MainWindow.load_network                                                 *)
(***************************************************************************)
\* a bound of the model: the documents whose positions are still in range
LowestCoordinate == 100 - Radius - Radius * MaxDrift

InRange(file) ==
    file.parses =>
        \A i \in DOMAIN file.data.nodes :
            LET d == file.data.nodes[i]
            IN /\ ("x" \in DOMAIN d => d.x >= LowestCoordinate)
               /\ ("y" \in DOMAIN d => d.y >= LowestCoordinate)

load_network(saved) ==
    /\ IF ~ saved.proceed
       THEN /\ files' = saved.files
            /\ current_file' = saved.current_file
            /\ modified' = saved.modified
            /\ error' = "none"
            /\ UNCHANGED <<viewVars, grnVars, species_combo>>
       ELSE
       \E file_name \in {p \in DOMAIN saved.files : saved.files[p].exists} :
         LET file == saved.files[file_name]
             h0 == Collect(heap, <<>>, <<>>, source_node, last_deleted)
             st == Restore(file.data, h0, saved.files)
         IN /\ InRange(file)
            /\ files' = saved.files
            /\ IF ~ file.parses
               THEN \* json.load raised: nothing was touched yet
                    /\ error' = "load failed"
                    /\ current_file' = saved.current_file
                    /\ modified' = saved.modified
                    /\ UNCHANGED <<viewVars, grnVars, species_combo>>
               ELSE /\ ~ st.short
                    /\ nodes' = st.nodes
                    /\ heap' = st.heap
                    /\ edges' = st.edges
                    /\ species' = st.species
                    /\ input_species_names' = st.input_species_names
                    /\ genes' = st.genes
                    /\ species_combo' =
                           IF st.emitted
                           THEN Range(species_names(st.species))
                           ELSE species_combo
                    /\ IF st.ok
                       THEN /\ error' = "none"
                            /\ current_file' = file_name
                            /\ modified' = FALSE
                       ELSE /\ error' = "load failed"
                            /\ current_file' = saved.current_file
                            /\ modified' = (st.emitted \/ saved.modified)
    /\ last_op' = "load_network"
    /\ UNCHANGED <<modeVars, pendingVars, last_deleted>>

LoadNetwork(answers) ==
    /\ Running
    /\ \E saved \in maybe_save(answers) : load_network(saved)

(***************************************************************************)
(* Documents found on disk that the program did not write.                 *)
(***************************************************************************)
\* a network written by hand: one gene with two regulators
SharedGeneDoc ==
    [nodes |-> <<[node_id |-> 101, species_name |-> "A",
                  display_name |-> "a", x |-> 100, y |-> 100,
                  logic_type |-> "and", alpha |-> 10],
                 [node_id |-> 102, species_name |-> "B",
                  display_name |-> "b", x |-> 100, y |-> 100,
                  logic_type |-> "and", alpha |-> 10],
                 [node_id |-> 103, species_name |-> "C",
                  display_name |-> "c", x |-> 100, y |-> 100,
                  logic_type |-> "and", alpha |-> 10]>>,
     edges |-> <<[source_id |-> 101, target_id |-> 103,
                  source_species |-> "A", target_species |-> "C",
                  type |-> 1, kd |-> 5, n |-> 2],
                 [source_id |-> 102, target_id |-> 103,
                  source_species |-> "B", target_species |-> "C",
                  type |-> -1, kd |-> 5, n |-> 2]>>,
     grn |-> [species |-> <<[name |-> "A"], [name |-> "B", delta |-> 1],
                            [name |-> "C", delta |-> 1]>>,
              input_species_names |-> <<"A">>,
              genes |-> <<[alpha |-> 10,
                           regulators |->
                               <<[name |-> "A", type |-> 1,
                                  Kd |-> 5, n |-> 2],
                                 [name |-> "B", type |-> -1,
                                  Kd |-> 5, n |-> 2]>>,
                           products |-> <<[name |-> "C"]>>,
                           logic_type |-> "and"]>>]]

\* a document whose second node record lacks "x"
MissingFieldDoc ==
    [nodes |-> <<[node_id |-> 101, species_name |-> "A",
                  display_name |-> "a", x |-> 100, y |-> 100,
                  logic_type |-> "and", alpha |-> 10],
                 [node_id |-> 102, species_name |-> "B",
                  display_name |-> "b", y |-> 100,
                  logic_type |-> "and", alpha |-> 10]>>,
     edges |-> <<>>,
     grn |-> [species |-> <<[name |-> "A", delta |-> 1],
                            [name |-> "B", delta |-> 1]>>,
              input_species_names |-> <<>>,
              genes |-> <<>>]]

\* a document with an edge from a node to itself
SelfLoopDoc ==
    [nodes |-> <<[node_id |-> 101, species_name |-> "A",
                  display_name |-> "a", x |-> 100, y |-> 100,
                  logic_type |-> "and", alpha |-> 10],
                 [node_id |-> 102, species_name |-> "B",
                  display_name |-> "b", x |-> 100, y |-> 100,
                  logic_type |-> "and", alpha |-> 10]>>,
     edges |-> <<[source_id |-> 101, target_id |-> 102,
                  source_species |-> "A", target_species |-> "B",
                  type |-> 1, kd |-> 5, n |-> 2],
                 [source_id |-> 102, target_id |-> 102,
                  source_species |-> "B", target_species |-> "B",
                  type |-> -1, kd |-> 5, n |-> 2]>>,
     grn |-> [species |-> <<[name |-> "A", delta |-> 1],
                            [name |-> "B", delta |-> 1]>>,
              input_species_names |-> <<>>,
              genes |-> <<[alpha |-> 10,
                           regulators |->
                               <<[name |-> "A", type |-> 1,
                                  Kd |-> 5, n |-> 2],
                                 [name |-> "B", type |-> -1,
                                  Kd |-> 5, n |-> 2]>>,
                           products |-> <<[name |-> "B"]>>,
                           logic_type |-> "and"]>>]]

\* a document in the older layout: node records carry "name" and edge
\* records carry the species names as "source" and "target"
LegacyDoc ==
    [nodes |-> <<[name |-> "A", x |-> 100, y |-> 100,
                  logic_type |-> "and", alpha |-> 10],
                 [name |-> "B", x |-> 100, y |-> 100,
                  logic_type |-> "and", alpha |-> 10]>>,
     edges |-> <<[source |-> "A", target |-> "B",
                  type |-> 1, kd |-> 5, n |-> 2]>>,
     grn |-> [species |-> <<[name |-> "A", delta |-> 1],
                            [name |-> "B", delta |-> 1]>>,
              input_species_names |-> <<>>,
              genes |-> <<[alpha |-> 10,
                           regulators |->
                               <<[name |-> "A", type |-> 1,
                                  Kd |-> 5, n |-> 2]>>,
                           products |-> <<[name |-> "B"]>>,
                           logic_type |-> "and"]>>]]

\* a document with two edge records for the same pair of nodes
DuplicateEdgeDoc ==
    [nodes |-> <<[node_id |-> 101, species_name |-> "A",
                  display_name |-> "a", x |-> 100, y |-> 100,
                  logic_type |-> "and", alpha |-> 10],
                 [node_id |-> 102, species_name |-> "B",
                  display_name |-> "b", x |-> 100, y |-> 100,
                  logic_type |-> "and", alpha |-> 10]>>,
     edges |-> <<[source_id |-> 101, target_id |-> 102,
                  source_species |-> "A", target_species |-> "B",
                  type |-> -1, kd |-> 7, n |-> 3],
                 [source_id |-> 102, target_id |-> 101,
                  source_species |-> "B", target_species |-> "A",
                  type |-> 1, kd |-> 5, n |-> 2],
                 [source_id |-> 101, target_id |-> 102,
                  source_species |-> "A", target_species |-> "B",
                  type |-> 1, kd |-> 5, n |-> 2]>>,
     grn |-> [species |-> <<[name |-> "A", delta |-> 1],
                            [name |-> "B", delta |-> 1]>>,
              input_species_names |-> <<>>,
              genes |-> <<[alpha |-> 10,
                           regulators |->
                               <<[name |-> "A", type |-> -1,
                                  Kd |-> 7, n |-> 3]>>,
                           products |-> <<[name |-> "B"]>>,
                           logic_type |-> "and"],
                          [alpha |-> 10,
                           regulators |->
                               <<[name |-> "B", type |-> 1,
                                  Kd |-> 5, n |-> 2]>>,
                           products |-> <<[name |-> "A"]>>,
                           logic_type |-> "and"]>>]]

Paths == {UserPath, "shared.grn", "missing.grn", "malformed.grn",
          "selfloop.grn", "legacy.grn", "duplicate.grn"}

OnDisk(present) ==
    [p \in Paths |->
        IF p \notin present THEN NoFile
        ELSE IF p = "shared.grn" THEN Written(SharedGeneDoc)
        ELSE IF p = "missing.grn" THEN Written(MissingFieldDoc)
        ELSE IF p = "malformed.grn" THEN Malformed
        ELSE IF p = "selfloop.grn" THEN Written(SelfLoopDoc)
        ELSE IF p = "legacy.grn" THEN Written(LegacyDoc)
        ELSE IF p = "duplicate.grn" THEN Written(DuplicateEdgeDoc)
        ELSE NoFile]

(***************************************************************************)
(* The state after MainWindow.__init__ and NetworkView.__init__, with the  *)
(* given documents on disk.                                                *)
(***************************************************************************)
InitWith(present) ==
    /\ nodes = <<>>
    /\ heap = <<>>
    /\ edges = <<>>
    /\ species = GRN.species
    /\ input_species_names = GRN.input_species_names
    /\ genes = GRN.genes
    /\ mode = "NORMAL"
    /\ source_node = NoNode
    /\ temp_line = FALSE
    /\ edge_type = "ACTIVATION"
    /\ node_logic_to_add = NoName
    /\ node_display_name = NoName
    /\ node_name_to_add = NoName
    /\ node_alpha_to_add = NoAlpha
    /\ species_combo = {}
    /\ files = OnDisk(present)
    /\ current_file = NoName
    /\ modified = FALSE
    /\ error = "none"
    /\ last_op = "init"
    /\ last_deleted = NoNode

ClickPoints == {<<100, 100>>}
DisplayNames == {"n"}

(***************************************************************************)
(* How the user works in the sessions below.  Idle: a gesture (placing a   *)
(* node, drawing an edge) is finished before another command is given.     *)
(* FreshSpecies: the node dialog is accepted for a species no node shows.  *)
(***************************************************************************)
Idle == mode = "NORMAL"

FreshSpecies ==
    node_name_to_add' \notin {heap[k].species_name : k \in Range(nodes)}

(***************************************************************************)
(* Spec: species are declared on an empty canvas, each gets one node,      *)
(* edges are drawn and removed, nodes removed; a document written by hand  *)
(* can be opened.                                                          *)
(***************************************************************************)
Init == InitWith({"shared.grn"})

Next ==
    \/ Idle /\ nodes = <<>> /\ AddSpeciesDialog(Names, {DefaultDelta}, {"Output"})
    \/ Idle /\ Len(nodes) < MaxNodes
            /\ AddNodeDialog({"and"}, {DefaultAlpha}, DisplayNames)
            /\ FreshSpecies
    \/ PlaceNode(ClickPoints)
    \/ Idle /\ ToggleEdgeMode
    \/ Escape
    \/ NodeClicked
    \/ MouseRelease /\ Len(edges') <= MaxEdges /\ Len(genes') <= MaxGenes
    \/ Idle /\ DeleteEdge
    \/ Idle /\ DeleteNode(FALSE)
    \/ Idle /\ LoadNetwork({"Discard"})

Spec == Init /\ [][Next]_vars

(***************************************************************************)
(* SpecPair: two species and two nodes that may show the same species;     *)
(* edges are drawn and removed, nodes removed (the caller keeps the node   *)
(* object and may ask for its removal again), node parameters edited.      *)
(***************************************************************************)
PairNames == {"A", "B"}

InitPair == InitWith({})

NextPair ==
    \/ Idle /\ AddSpeciesDialog(PairNames, {DefaultDelta}, {"Output", "Input"})
    \/ Idle /\ Len(nodes) < PairNodes
            /\ AddNodeDialog({"and"}, {DefaultAlpha}, DisplayNames)
    \/ PlaceNode(ClickPoints)
    \/ Idle /\ ToggleEdgeMode
    \/ NodeClicked
    \/ MouseRelease /\ Len(edges') <= PairEdges /\ Len(genes') <= PairGenes
    \/ Idle /\ DeleteEdge
    \/ Idle /\ DeleteNode(TRUE)
    \/ Idle /\ DeleteNodeAgain
    \/ Idle /\ SaveNodeParameters(DisplayNames, {DefaultAlpha}, {"and"})

SpecPair == InitPair /\ [][NextPair]_vars

(***************************************************************************)
(* SpecFile: a small network is built, saved, opened again or replaced by  *)
(* a new one; a document with a missing field and a file that is not JSON  *)
(* lie on disk.  Every answer to "save changes?" but Cancel is taken.      *)
(***************************************************************************)
Answers == {"Discard", "Save"}

InitFile == InitWith({"missing.grn", "malformed.grn"})

NextFile ==
    \/ Idle /\ AddSpeciesDialog(PairNames, {DefaultDelta}, {"Output"})
    \/ Idle /\ Len(nodes) < FileNodes
            /\ AddNodeDialog({"and"}, {DefaultAlpha}, DisplayNames)
    \/ PlaceNode(ClickPoints)
    \/ Idle /\ ToggleEdgeMode
    \/ NodeClicked
    \/ MouseRelease /\ Len(edges') <= FileEdges
    \/ Idle /\ SaveNetwork
    \/ Idle /\ LoadNetwork(Answers)
    \/ Idle /\ NewNetwork(Answers)

SpecFile == InitFile /\ [][NextFile]_vars

(***************************************************************************)
(* SpecPanel: species are declared as regular or input species and retyped *)
(* from a node's context menu and from the species panel; the network is   *)
(* saved and opened again.                                                 *)
(***************************************************************************)
InitPanel == InitWith({})

NextPanel ==
    \/ Idle /\ AddSpeciesDialog(PairNames, {DefaultDelta}, {"Output", "Input"})
    \/ Idle /\ Len(nodes) < PanelNodes
            /\ AddNodeDialog({"and"}, {DefaultAlpha}, DisplayNames)
    \/ PlaceNode(ClickPoints)
    \/ Idle /\ ToggleNodeType({DefaultDelta})
    \/ Idle /\ SaveSpeciesParameters({DefaultDelta})
    \/ Idle /\ SaveNetwork
    \/ Idle /\ LoadNetwork({"Discard"})

SpecPanel == InitPanel /\ [][NextPanel]_vars

(***************************************************************************)
(* SpecLoop: a document with an edge from a node to itself lies on disk;   *)
(* it is opened, edges are drawn and removed, nodes removed.               *)
(***************************************************************************)
InitLoop == InitWith({"selfloop.grn"})

NextLoop ==
    \/ Idle /\ LoadNetwork({"Discard"})
    \/ Idle /\ ToggleEdgeMode
    \/ NodeClicked
    \/ MouseRelease /\ Len(edges') <= LoopEdges
    \/ Idle /\ DeleteEdge
    \/ Idle /\ DeleteNode(FALSE)

SpecLoop == InitLoop /\ [][NextLoop]_vars

(***************************************************************************)
(* SpecLegacy: a document in the older layout lies on disk; species are    *)
(* declared, nodes placed, edges drawn, the document opened.               *)
(***************************************************************************)
InitLegacy == InitWith({"legacy.grn"})

NextLegacy ==
    \/ Idle /\ AddSpeciesDialog(PairNames, {DefaultDelta}, {"Output"})
    \/ Idle /\ Len(nodes) < LegacyNodes
            /\ AddNodeDialog({"and"}, {DefaultAlpha}, DisplayNames)
    \/ PlaceNode(ClickPoints)
    \/ Idle /\ ToggleEdgeMode
    \/ NodeClicked
    \/ MouseRelease /\ Len(edges') <= LegacyEdges
    \/ Idle /\ LoadNetwork({"Discard"})

SpecLegacy == InitLegacy /\ [][NextLegacy]_vars

(***************************************************************************)
(* SpecMode: the editing modes.  The node dialog is accepted with either   *)
(* logic and alpha and in any mode, a node is placed, edge mode is         *)
(* switched on and off, an edge is drawn, Escape is pressed, and nodes     *)
(* are renamed from their context menu.                                    *)
(***************************************************************************)
ModeNames == {"A"}
PlacingAlphas == {DefaultAlpha, 2 * DefaultAlpha}
Chars == {" ", "m"}
TypedTexts == UNION {[1..len -> Chars] : len \in 0..MaxText}

InitMode == InitWith({})

NextMode ==
    \/ Idle /\ AddSpeciesDialog(ModeNames, {DefaultDelta}, {"Output"})
    \/ Len(nodes) < ModeNodes
          /\ AddNodeDialog(Logics, PlacingAlphas, DisplayNames)
    \/ PlaceNode(ClickPoints)
    \/ ToggleEdgeMode
    \/ Escape
    \/ NodeClicked
    \/ MouseRelease /\ Len(edges') <= ModeEdges
    \/ Idle /\ RenameNode(TypedTexts)

SpecMode == InitMode /\ [][NextMode]_vars

(***************************************************************************)
(* SpecDup: the same edge is drawn more than once and the Kd of an edge    *)
(* is edited, then the network is saved and opened again; a document with  *)
(* two records for one edge lies on disk.                                  *)
(***************************************************************************)
DupNames == {"A"}
EditKds == {DefaultKd, DefaultKd + 2}
EditNs == {DefaultN}

InitDup == InitWith({"duplicate.grn"})

NextDup ==
    \/ Idle /\ nodes = <<>>
            /\ AddSpeciesDialog(DupNames, {DefaultDelta}, {"Output"})
    \/ Idle /\ Len(nodes) < DupNodes /\ current_file = NoName
            /\ AddNodeDialog({"and"}, {DefaultAlpha}, DisplayNames)
    \/ PlaceNode(ClickPoints)
    \/ Idle /\ current_file = NoName /\ ToggleEdgeMode
    \/ NodeClicked
    \/ MouseRelease /\ Len(edges') <= DupEdges
    \/ Idle /\ current_file = NoName
            /\ SaveEdgeParameters(EditKds, EditNs, {"ACTIVATION"})
    \/ Idle /\ current_file = NoName /\ SaveNetwork
    \/ Idle /\ LoadNetwork({"Discard"})

SpecDup == InitDup /\ [][NextDup]_vars

(***************************************************************************)
(* SpecEdit: edges are drawn between nodes of one species or come from a   *)
(* document; their Kd and type are edited and edges are removed.           *)
(***************************************************************************)
InitEdit == InitWith({"duplicate.grn"})

NextEdit ==
    \/ Idle /\ nodes = <<>>
            /\ AddSpeciesDialog(DupNames, {DefaultDelta}, {"Output"})
    \/ Idle /\ Len(nodes) < EditNodes /\ current_file = NoName
            /\ AddNodeDialog({"and"}, {DefaultAlpha}, DisplayNames)
    \/ PlaceNode(ClickPoints)
    \/ Idle /\ current_file = NoName /\ ToggleEdgeMode
    \/ NodeClicked
    \/ MouseRelease /\ Len(edges') <= EditEdges
    \/ Idle /\ SaveEdgeParameters(EditKds, EditNs, EdgeTypes)
    \/ Idle /\ current_file = NoName /\ DeleteEdge
    \/ Idle /\ LoadNetwork({"Discard"})

SpecEdit == InitEdit /\ [][NextEdit]_vars

(***************************************************************************)
(* SpecNode: nodes of one species are placed and joined by edges, and the  *)
(* display name, alpha and logic of a node are changed in the parameter    *)
(* panel.                                                                  *)
(***************************************************************************)
InitNode == InitWith({})

NextNode ==
    \/ Idle /\ AddSpeciesDialog(ModeNames, {DefaultDelta}, {"Output"})
    \/ Idle /\ Len(nodes) < PanelledNodes
            /\ AddNodeDialog({"and"}, {DefaultAlpha}, DisplayNames)
    \/ PlaceNode(ClickPoints)
    \/ Idle /\ ToggleEdgeMode
    \/ NodeClicked
    \/ MouseRelease /\ Len(edges') <= PanelledEdges
    \/ Idle /\ SaveNodeParameters(DisplayNames, PlacingAlphas, Logics)

SpecNode == InitNode /\ [][NextNode]_vars

(***************************************************************************)
(* SpecRetype: regular species are declared, nodes placed and joined by    *)
(* edges, and nodes are switched between regular and input from their      *)
(* context menu.                                                           *)
(***************************************************************************)
InitRetype == InitWith({})

NextRetype ==
    \/ Idle /\ AddSpeciesDialog(PairNames, {DefaultDelta}, {"Output"})
    \/ Idle /\ Len(nodes) < RetypeNodes
            /\ AddNodeDialog({"and"}, {DefaultAlpha}, DisplayNames)
    \/ PlaceNode(ClickPoints)
    \/ Idle /\ ToggleEdgeMode
    \/ NodeClicked
    \/ MouseRelease /\ Len(edges') <= RetypeEdges
    \/ Idle /\ ToggleNodeType({DefaultDelta})

SpecRetype == InitRetype /\ [][NextRetype]_vars

(***************************************************************************)
(* SpecSave: two nodes of one species are joined in both directions and    *)
(* an edge is deleted; the network is saved and an edge is edited; the     *)
(* network is replaced by a new one or the window is closed.  The question *)
(* "save changes?" gets every answer, and the save that follows may fail.  *)
(***************************************************************************)
AllAnswers == {"Discard", "Save", "Cancel", "Save fails"}

InitSave == InitWith({})

NextSave ==
    \/ Idle /\ nodes = <<>> /\ current_file = NoName
            /\ AddSpeciesDialog(ModeNames, {DefaultDelta}, {"Output"})
    \/ Idle /\ Len(nodes) < SaveNodes /\ current_file = NoName
            /\ AddNodeDialog({"and"}, {DefaultAlpha}, DisplayNames)
    \/ PlaceNode(ClickPoints)
    \/ Idle /\ current_file = NoName /\ ToggleEdgeMode
    \/ NodeClicked
    \/ MouseRelease /\ Len(edges') <= SaveEdges
    \/ Idle /\ current_file = NoName /\ DeleteEdge
    \/ Idle /\ SaveNetwork
    \/ Idle /\ current_file # NoName
            /\ SaveEdgeParameters(EditKds, EditNs, {"ACTIVATION"})
    \/ Idle /\ NewNetwork(AllAnswers)
    \/ Idle /\ CloseEvent(AllAnswers)

SpecSave == InitSave /\ [][NextSave]_vars

(***************************************************************************)
(* SpecDrag: the mouse button is down on a node in edge mode, and until it *)
(* is released the keyboard is used: Escape, the shortcut of the edge      *)
(* mode, Ctrl+N.  A release is followed while the source is still a node   *)
(* of the map.                                                             *)
(***************************************************************************)
InitDrag == InitWith({})

NextDrag ==
    \/ Idle /\ nodes = <<>>
            /\ AddSpeciesDialog(ModeNames, {DefaultDelta}, {"Output"})
    \/ Idle /\ Len(nodes) < DragNodes
            /\ AddNodeDialog({"and"}, {DefaultAlpha}, DisplayNames)
    \/ PlaceNode(ClickPoints)
    \/ ToggleEdgeMode
    \/ NodeClicked
    \/ InMap(source_node) /\ MouseRelease /\ Len(edges') <= DragEdges
    \/ Escape
    \/ NewNetwork({"Discard", "Save", "Cancel"})

SpecDrag == InitDrag /\ [][NextDrag]_vars

(***************************************************************************)
(* Properties of the edge list, the node map and the genes.                *)
(***************************************************************************)
\* the species of the two ends of an edge
SourceSpecies(e) == heap[e.source_node].species_name
TargetSpecies(e) == heap[e.target_node].species_name

HasRegulator(g, name) ==
    \E j \in DOMAIN g.regulators : g.regulators[j].name = name

\* the genes an edge from species s to species t corresponds to
Matches(g, s, t) == g.products = <<[name |-> t]>> /\ HasRegulator(g, s)

\* C1: in every reachable state the node map has an entry under the node
\* id of the source node and of the target node of every edge.
EdgeEndpointsInMap ==
    \A i \in DOMAIN edges :
        /\ heap[edges[i].source_node].node_id \in Range(nodes)
        /\ heap[edges[i].target_node].node_id \in Range(nodes)

DeleteEdgeKeepsOtherRegulators ==
    [][\A i \in DOMAIN edges :
          (last_op' = "delete_edge" /\ edges' = RemoveAt(edges, i)) =>
              LET s == SourceSpecies(edges[i])
                  t == TargetSpecies(edges[i])
                  Other(r) == r["name"] # s
              IN \A k \in DOMAIN genes :
                     IF ~ Matches(genes[k], s, t)
                     THEN genes[k] \in Range(genes')
                     ELSE Len(genes[k].regulators) > 1 =>
                              [genes[k] EXCEPT
                                  !.regulators = SelectSeq(@, Other)]
                                  \in Range(genes')]_vars

\* C2: in every reachable state every edge has exactly one gene whose sole
\* product is the species of its target node and whose regulators name the
\* species of its source node, and every regulator of every gene has such
\* an edge.
EdgesMatchRegulators ==
    /\ \A i \in DOMAIN edges :
           Cardinality({k \in DOMAIN genes :
                           Matches(genes[k], SourceSpecies(edges[i]),
                                   TargetSpecies(edges[i]))}) = 1
    /\ \A k \in DOMAIN genes :
           \A j \in DOMAIN genes[k].regulators :
               \E i \in DOMAIN edges :
                   Matches(genes[k], SourceSpecies(edges[i]),
                           TargetSpecies(edges[i]))
                   /\ genes[k].regulators[j].name = SourceSpecies(edges[i])

\* C3: when delete_node removes a node whose species another node still
\* shows, the species stays in the species list, and in the input species
\* if it was there.
DeleteNodeKeepsSharedSpecies ==
    [][(last_op' = "delete_node" /\ error' = "none") =>
          \A k \in Range(nodes) \ Range(nodes') :
              LET X == heap[k].species_name
              IN (\E m \in Range(nodes') : heap'[m].species_name = X) =>
                     /\ X \in Range(species_names(species)) =>
                            X \in Range(species_names(species'))
                     /\ X \in Range(input_species_names) =>
                            X \in Range(input_species_names')]_vars

\* C8: delete_node called again for a node that is no longer in the node
\* map raises no error and leaves nodes, edges and the GRN as they are.
SecondDeleteChangesNothing ==
    [][DeleteNodeAgain =>
          /\ error' = "none"
          /\ UNCHANGED <<nodes, edges, species, input_species_names,
                         genes>>]_vars

\* C9: after an edge from s to t was added exactly one gene has the species
\* of t as product and the species of s among its regulators: the genes
\* are unchanged if there was such a gene, and otherwise the one gene
\* {t.alpha, [{s.species, type, Kd, n}], [{t.species}], t.logic} is added.
AddEdgeGivesOneGene ==
    [][last_op' = "complete_edge" =>
          LET e == edges'[Len(edges')]
              s == heap'[e.source_node]
              t == heap'[e.target_node]
              Was == {k \in DOMAIN genes :
                         Matches(genes[k], s.species_name, t.species_name)}
              Is == {k \in DOMAIN genes' :
                        Matches(genes'[k], s.species_name, t.species_name)}
          IN /\ Cardinality(Is) = 1
             /\ Was # {} => genes' = genes
             /\ Was = {} =>
                    genes' = Append(genes,
                        [alpha |-> t.alpha,
                         regulators |->
                             <<[name |-> s.species_name,
                                type |-> EdgeTypeValue(e.edge_type),
                                Kd |-> e.kd, n |-> e.n]>>,
                         products |-> <<[name |-> t.species_name]>>,
                         logic_type |-> t.logic_type])]_vars

(***************************************************************************)
(* Properties of saving and loading.                                       *)
(***************************************************************************)
\* what can be observed of the network, up to the order of nodes and edges
Observed ==
    [nodes |-> {[node_id |-> heap[k].node_id,
                 species_name |-> heap[k].species_name,
                 display_name |-> heap[k].display_name,
                 x |-> heap[k].x, y |-> heap[k].y,
                 alpha |-> heap[k].alpha,
                 logic_type |-> heap[k].logic_type] : k \in Range(nodes)},
     edges |-> {[source_id |-> heap[edges[i].source_node].node_id,
                 target_id |-> heap[edges[i].target_node].node_id,
                 type |-> edges[i].edge_type,
                 kd |-> edges[i].kd, n |-> edges[i].n] : i \in DOMAIN edges},
     species |-> Range(species),
     input_species_names |-> Range(input_species_names),
     genes |-> Range(genes)]

\* C4: loading the document that was just saved gives the nodes, edges,
\* species, input species and genes that were saved.
SaveThenLoadIsIdentity ==
    [][(/\ last_op = "save_network"
        /\ last_op' = "load_network"
        /\ error' = "none"
        /\ current_file' = current_file) => Observed' = Observed]_vars

\* C5: a load that fails leaves the nodes, the edges and the GRN as they
\* were before it started.
FailedLoadChangesNothing ==
    [][(last_op' = "load_network" /\ error' = "load failed") =>
          /\ UNCHANGED <<nodes, edges, species, input_species_names, genes>>
          /\ \A k \in Range(nodes) : heap'[k] = heap[k]]_vars

(***************************************************************************)
(* Properties of the species list.                                         *)
(***************************************************************************)
\* C7: in every reachable state a species of the species list is an input
\* species if and only if it carries no delta.
InputIffNoDelta ==
    \A i \in DOMAIN species :
        (species[i].name \in Range(input_species_names))
            <=> ("delta" \notin DOMAIN species[i])

(***************************************************************************)
(* Properties of delete_node.                                              *)
(***************************************************************************)
\* the genes after the regulators of the removed edges were taken out:
\* removed holds the <<source species, target species>> of the removed edges
WithoutRegulators(gs, removed) ==
    LET Gone(g, r) == \E p \in removed : Matches(g, p[1], p[2])
                                         /\ r["name"] = p[1]
        Cut(g) == LET Stays(r) == ~ Gone(g, r)
                  IN [g EXCEPT !.regulators = SelectSeq(@, Stays)]
        Cuts == [i \in DOMAIN gs |-> Cut(gs[i])]
        NotEmptied(g) == g["regulators"] # <<>>
    IN SelectSeq(Cuts, NotEmptied)

\* C11: delete_node removes the node and exactly the edges that touch it;
\* for each removed edge the regulator is taken out of its gene and the
\* gene is removed when no regulator is left; the other nodes, edges, genes
\* and regulators are unchanged.
DeleteNodeRemovesItsRegulators ==
    [][\A k \in Range(nodes) :
          (last_op' = "delete_node" /\ error' = "none"
           /\ k \notin Range(nodes')) =>
              LET Other(e) == ~ Touches(e, k)
                  removed == {<<SourceSpecies(edges[i]),
                                TargetSpecies(edges[i])>> :
                                  i \in {j \in DOMAIN edges :
                                            Touches(edges[j], k)}}
              IN /\ nodes' = RemoveFirst(nodes, k)
                 /\ edges' = SelectSeq(edges, Other)
                 /\ \A m \in Range(nodes') : heap'[m] = heap[m]
                 /\ genes' = WithoutRegulators(genes, removed)]_vars

(***************************************************************************)
(* Properties of the edges drawn and loaded.                               *)
(***************************************************************************)
\* C12: in every reachable state no edge has the same node as source and
\* as target: a release over the source node adds no edge, and load_network
\* creates no edge from a node to itself.
NoSelfLoops ==
    \A i \in DOMAIN edges : edges[i].source_node # edges[i].target_node

\* C13: in every reachable state the edge list holds at most one edge for
\* each ordered pair (node id of the source, node id of the target), also
\* after the same edge was drawn twice.
OneEdgePerPair ==
    \A i, j \in DOMAIN edges :
        (/\ heap[edges[i].source_node].node_id
                = heap[edges[j].source_node].node_id
         /\ heap[edges[i].target_node].node_id
                = heap[edges[j].target_node].node_id) => i = j

(***************************************************************************)
(* Properties of documents in the older layout.                            *)
(***************************************************************************)
\* C14: opening a document in the older layout succeeds: every node record
\* becomes a node with a fresh id whose species is the record's "name",
\* and every edge record becomes an edge between the nodes of its "source"
\* and "target" species.
LegacyDocumentLoads ==
    [][last_op' = "load_network" =>
          /\ error' = "none"
          /\ Len(nodes') = Len(LegacyDoc.nodes)
          /\ \A i \in DOMAIN nodes' :
                 /\ heap'[nodes'[i]].species_name = LegacyDoc.nodes[i].name
                 /\ heap'[nodes'[i]].node_id \notin Range(nodes)
          /\ Len(edges') = Len(LegacyDoc.edges)
          /\ \A i \in DOMAIN edges' :
                 /\ heap'[edges'[i].source_node].species_name
                        = LegacyDoc.edges[i].source
                 /\ heap'[edges'[i].target_node].species_name
                        = LegacyDoc.edges[i].target]_vars

(***************************************************************************)
(* Properties of the handlers as units.                                    *)
(***************************************************************************)
\* the handlers that change nodes, edges or the GRN on the user's behalf
MutationOps ==
    {"add_node", "delete_node", "complete_edge", "delete_edge",
     "rename_node", "toggle_node_type", "save_node_parameters"}

\* C15: a mutation that ends with an error leaves nodes, edges and the GRN
\* as they were when it was called: none of its effects is present.
FailedMutationChangesNothing ==
    [][(last_op' \in MutationOps /\ error' # "none") =>
          /\ UNCHANGED <<nodes, edges, species, input_species_names, genes>>
          /\ \A k \in Range(nodes) : heap'[k] = heap[k]]_vars

(***************************************************************************)
(* Properties of the editing mode.                                         *)
(***************************************************************************)
\* C16: edge mode is sticky: a release in ADDING_EDGE mode, whether it
\* commits an edge or abandons the attempt, leaves the mode ADDING_EDGE
\* with no source node, and the mode leaves ADDING_EDGE only through
\* set_edge_mode(False), Escape or start_add_node.
EdgeModeIsSticky ==
    [][mode = "ADDING_EDGE" =>
          /\ last_op' \in {"complete_edge", "mouseReleaseEvent"} =>
                 mode' = "ADDING_EDGE" /\ source_node' = NoNode
          /\ mode' # "ADDING_EDGE" =>
                 last_op' \in {"set_edge_mode", "keyPressEvent",
                               "add_node_dialog"}]_vars

\* C17: in ADDING_NODE mode a left press creates exactly one node whose
\* species, logic, alpha and display name are the pending ones given to
\* start_add_node, and leaves the view in NORMAL mode with nothing pending.
PlacedNodeHasPendingSpec ==
    [][(mode = "ADDING_NODE" /\ last_op' = "add_node") =>
          /\ Len(nodes') = Len(nodes) + 1
          /\ SubSeq(nodes', 1, Len(nodes)) = nodes
          /\ LET node == heap'[nodes'[Len(nodes')]]
             IN /\ node.species_name = node_name_to_add
                /\ node.logic_type = node_logic_to_add
                /\ node.alpha = node_alpha_to_add
                /\ node.display_name = node_display_name
          /\ mode' = "NORMAL"
          /\ node_name_to_add' = NoName
          /\ node_logic_to_add' = NoName
          /\ node_alpha_to_add' = NoAlpha
          /\ node_display_name' = NoName]_vars

\* C18: Escape in ADDING_NODE or ADDING_EDGE mode leads to NORMAL mode,
\* discards the pending species, logic, alpha and display name and the
\* pending source node, and leaves nodes, edges, species, input species
\* and genes unchanged.
EscapeDiscardsPending ==
    [][(mode # "NORMAL" /\ last_op' = "keyPressEvent") =>
          /\ mode' = "NORMAL"
          /\ node_name_to_add' = NoName
          /\ node_logic_to_add' = NoName
          /\ node_alpha_to_add' = NoAlpha
          /\ node_display_name' = NoName
          /\ source_node' = NoNode
          /\ UNCHANGED <<nodes, edges, species, input_species_names,
                         genes>>]_vars

(***************************************************************************)
(* Properties of the genes and the species list.                           *)
(***************************************************************************)
\* C19: in every reachable state every product name and every regulator
\* name of every gene is the name of a species of the species list.
GenesNameKnownSpecies ==
    \A i \in DOMAIN genes :
        /\ \A j \in DOMAIN genes[i].products :
               genes[i].products[j].name \in Range(species_names(species))
        /\ \A j \in DOMAIN genes[i].regulators :
               genes[i].regulators[j].name \in Range(species_names(species))

(***************************************************************************)
(* Properties of rename_node.                                              *)
(***************************************************************************)
\* C20: rename_node changes only the display name of the node: its id,
\* species, alpha and logic, the other nodes, the edges, the species list,
\* the input species and the genes are unchanged; when the name typed is
\* empty the display name becomes the species name of the node.
RenameChangesOnlyDisplayName ==
    [][\A k \in Range(nodes), typed \in TypedTexts :
          rename_node(k, typed) =>
              /\ heap' = [heap EXCEPT
                             ![k].display_name = heap'[k].display_name]
              /\ UNCHANGED <<nodes, edges, species, input_species_names,
                             genes>>
              /\ typed = <<>> =>
                     heap'[k].display_name = heap[k].species_name]_vars

\* a node with an edge was renamed with nothing typed: it shows the name
\* of its species
RenamedToSpeciesName ==
    /\ last_op = "rename_node"
    /\ edges # <<>>
    /\ \E k \in Range(nodes) :
           /\ heap[k].display_name = heap[k].species_name
           /\ \E i \in DOMAIN edges : Touches(edges[i], k)

(***************************************************************************)
(* Properties of the edges a document yields.                              *)
(***************************************************************************)
\* the edge records of a document whose two ids are node ids of it
Resolvable(doc) ==
    LET ids == {doc.nodes[i].node_id : i \in DOMAIN doc.nodes}
    IN {i \in DOMAIN doc.edges :
           doc.edges[i].source_id \in ids /\ doc.edges[i].target_id \in ids}

SamePair(doc, i, j) ==
    /\ doc.edges[i].source_id = doc.edges[j].source_id
    /\ doc.edges[i].target_id = doc.edges[j].target_id

\* the first record of each pair, in document order
FirstRecords(doc) ==
    {i \in Resolvable(doc) :
        \A j \in Resolvable(doc) : SamePair(doc, i, j) => i <= j}

\* C21: after a load, for every (source id, target id) pair with records in
\* the document exactly one edge joins the two nodes, and it carries the
\* type, Kd and n of the first record of the pair; no other edge exists.
LoadKeepsFirstEdgeRecord ==
    [][(last_op' = "load_network" /\ error' = "none") =>
          LET doc == files'[current_file'].data
              Of(i) == {m \in DOMAIN edges' :
                           /\ heap'[edges'[m].source_node].node_id
                                  = doc.edges[i].source_id
                           /\ heap'[edges'[m].target_node].node_id
                                  = doc.edges[i].target_id}
          IN /\ \A i \in FirstRecords(doc) :
                    /\ Cardinality(Of(i)) = 1
                    /\ \A m \in Of(i) :
                           /\ EdgeTypeValue(edges'[m].edge_type)
                                  = doc.edges[i].type
                           /\ edges'[m].kd = doc.edges[i].kd
                           /\ edges'[m].n = doc.edges[i].n
             /\ Len(edges') = Cardinality(FirstRecords(doc))]_vars

\* the document written by the program after the same edge was drawn twice
\* and one of the two edges was given another Kd has been opened: one edge
LoadedTwiceDrawnEdge ==
    /\ last_op = "load_network"
    /\ error = "none"
    /\ current_file = UserPath
    /\ LET doc == files[UserPath].data
       IN \E i, j \in Resolvable(doc) :
              /\ i < j
              /\ SamePair(doc, i, j)
              /\ doc.edges[i].kd # doc.edges[j].kd
    /\ Len(edges) = 1

(***************************************************************************)
(* Properties of editing the parameters of an edge.                        *)
(***************************************************************************)
\* C22: editing the parameters of an edge raises grn_modified exactly once,
\* and the genes its observers are shown are the genes the edit ends with.
EditEmitsOnceAtTheEnd ==
    [][\A i \in DOMAIN edges, kd \in EditKds, n \in EditNs,
          type \in EdgeTypes :
          save_edge_parameters(i, kd, n, type) =>
              edit_emissions(genes, SourceSpecies(edges[i]),
                             TargetSpecies(edges[i]), kd, n, type)
                  = <<genes'>>]_vars

\* C23: after the parameters of an edge were edited the edge carries the
\* new Kd, n and type, and in every gene whose first product is the species
\* of the target and which has a regulator named after the species of the
\* source, such a regulator carries them too; the regulators of other
\* names and the genes of other pairs are unchanged.
EditUpdatesEdgeAndRegulator ==
    [][\A i \in DOMAIN edges, kd \in EditKds, n \in EditNs,
          type \in EdgeTypes :
          save_edge_parameters(i, kd, n, type) =>
              LET s == SourceSpecies(edges[i])
                  t == TargetSpecies(edges[i])
                  new == [name |-> s, type |-> EdgeTypeValue(type),
                          Kd |-> kd, n |-> n]
              IN /\ edges'[i].kd = kd
                 /\ edges'[i].n = n
                 /\ edges'[i].edge_type = type
                 /\ DOMAIN genes' = DOMAIN genes
                 /\ \A g \in DOMAIN genes :
                        IF genes[g].products[1].name = t
                           /\ HasRegulator(genes[g], s)
                        THEN /\ new \in Range(genes'[g].regulators)
                             /\ DOMAIN genes'[g].regulators
                                    = DOMAIN genes[g].regulators
                             /\ \A j \in DOMAIN genes[g].regulators :
                                    genes[g].regulators[j].name # s =>
                                        genes'[g].regulators[j]
                                            = genes[g].regulators[j]
                             /\ genes'[g] = [genes[g] EXCEPT
                                    !.regulators = genes'[g].regulators]
                        ELSE genes'[g] = genes[g]]_vars

\* the edge 101 -> 102 of duplicate.grn was edited: the regulator A of the
\* gene of B follows the edge, the gene of A with regulator B is as it was
EditedOneOfTwoGenes ==
    /\ last_op = "save_edge_parameters"
    /\ current_file = "duplicate.grn"
    /\ genes # DuplicateEdgeDoc.grn.genes
    /\ genes[2] = DuplicateEdgeDoc.grn.genes[2]
    /\ \E i \in DOMAIN edges :
           /\ SourceSpecies(edges[i]) = "A"
           /\ genes[1].regulators[1]
                  = [name |-> "A",
                     type |-> EdgeTypeValue(edges[i].edge_type),
                     Kd |-> edges[i].kd, n |-> edges[i].n]

(***************************************************************************)
(* Properties relating nodes, species and genes.                           *)
(***************************************************************************)
\* C24: in every reachable state a gene that corresponds to an edge has the
\* alpha and the logic of the target node of the edge.
GeneFollowsTargetNode ==
    \A i \in DOMAIN edges : \A g \in DOMAIN genes :
        Matches(genes[g], SourceSpecies(edges[i]), TargetSpecies(edges[i]))
            => /\ genes[g].alpha = heap[edges[i].target_node].alpha
               /\ genes[g].logic_type
                      = heap[edges[i].target_node].logic_type

\* C25: in every reachable state no gene has a product whose name is among
\* the input species.
InputsAreNoProducts ==
    \A g \in DOMAIN genes : \A j \in DOMAIN genes[g].products :
        genes[g].products[j].name \notin Range(input_species_names)

\* C26: in every reachable state every node of the node map is stored
\* under its own node id.
NodesStoredUnderOwnId ==
    \A k \in Range(nodes) : heap[k].node_id = k

\* C27: in every reachable state the species of every node is a species of
\* the species list.
NodesNameKnownSpecies ==
    \A k \in Range(nodes) :
        heap[k].species_name \in Range(species_names(species))

\* C28: loading the document that was just saved puts every node at the
\* position it had when it was saved.
SaveThenLoadKeepsPositions ==
    [][(/\ last_op = "save_network"
        /\ last_op' = "load_network"
        /\ error' = "none"
        /\ current_file' = current_file) =>
          {<<heap'[k].node_id, heap'[k].x, heap'[k].y>> :
               k \in Range(nodes')}
              = {<<heap[k].node_id, heap[k].x, heap[k].y>> :
                     k \in Range(nodes)}]_vars

(***************************************************************************)
(* Properties of unsaved changes.                                          *)
(***************************************************************************)
\* The question itself: new_network, load_network and closing the window
\* replace or drop
\* the network only when modified is false, or Save was chosen and the
\* network was written, or Discard was chosen; after Cancel or a failed
\* save the nodes, the edges and the GRN are unchanged, modified is still
\* true and the window is open.  modified is false after a successful
\* save, load or new, and true after a handler that raises grn_modified.
UnsavedChangesAreKept ==
    [][/\ \A saved \in maybe_save(AllAnswers) :
              (new_network(saved) \/ load_network(saved)
                   \/ closeEvent(saved)) =>
                  LET network == <<nodes, edges, species,
                                   input_species_names, genes>>
                      written == Written(network_data(
                                     nodes, heap, edges, species,
                                     input_species_names, genes))
                  IN /\ (network' # network \/ error' = "closed") =>
                            \/ ~ modified
                            \/ saved.answer = "Discard"
                            \/ /\ saved.answer = "Save"
                               /\ \E path \in Paths : files'[path] = written
                     /\ (modified
                         /\ saved.answer \in {"Cancel", "Save fails"}) =>
                            /\ network' = network
                            /\ \A k \in Range(nodes) : heap'[k] = heap[k]
                            /\ modified'
                            /\ error' # "closed"
                     /\ (saved.proceed /\ error' = "none") => ~ modified'
       /\ last_op' = "save_network" => ~ modified'
       /\ last_op' \in {"add_species_dialog", "add_node", "complete_edge",
                        "delete_edge", "rename_node", "toggle_node_type",
                        "save_species_parameters", "save_node_parameters"}
              => modified']_vars

\* Ctrl+N was answered with Cancel, or the save it led to failed: the
\* node is still there and the changes still count as unsaved
CancelledNewNetwork ==
    last_op = "new_network" /\ modified /\ nodes # <<>>

\* C29: unsaved changes are never discarded silently: a network that
\* new_network or closing the window drops without a question is the
\* network its file holds
DroppedWithoutQuestionIsOnDisk ==
    [][\A saved \in maybe_save(AllAnswers) :
           ((new_network(saved) \/ closeEvent(saved))
            /\ saved.answer = "none" /\ current_file # NoName) =>
               files[current_file] =
                   Written(network_data(nodes, heap, edges, species,
                                        input_species_names, genes))]_vars

(***************************************************************************)
(* Properties of the pending edge.                                         *)
(***************************************************************************)
\* C30: a source node is pending only in the mode ADDING_EDGE, it is a
\* node of the node map, and the temporary line exists exactly when a
\* source is pending
PendingSourceIsInMap ==
    /\ source_node # NoNode =>
           (mode = "ADDING_EDGE" /\ InMap(source_node))
    /\ temp_line <=> source_node # NoNode

====
